---- MODULE Spec2Model ----
(***************************************************************************)
(* Model of nengo_dl/compat.py: the NoType stand-in types, the TensorFlow  *)
(* log filter, the vendored _build_map graph traversal and the version-    *)
(* gated bindings made while the module is loaded.                         *)
(***************************************************************************)
EXTENDS Integers, Sequences, FiniteSets, TLC

VARIABLES
    \* ---- Python type objects (NoType, make_dummy_type) ----
    types,          \* type id -> [name, bases, init]; ids are 1..Len(types)
    made,           \* ids of the types returned by make_dummy_type
    instances,      \* ids of the types of which an instance was handed out
    lastCall,       \* the last call of a type: [tid, nargs, outcome]
    \* ---- module load ----
    tf_version,     \* tf.__version__
    nengo_version,  \* nengo.__version__
    importable,     \* the optional imports that would succeed
    load_pc,        \* position of the module-level code
    bindings,       \* module globals: name -> binding
    logger_filters, \* filters added to tf.get_logger(), in order
    patched,        \* third-party attributes overwritten by the module
    \* ---- TFLogFilter.filter ----
    log_filter,         \* the TFLogFilter object whose filter method is called
    record,             \* the LogRecord handed to filter
    filter_out,         \* [outcome, record, self] of the last filter call
    \* ---- _build_map ----
    inbound_layers, \* node -> the layers that produce the node's inputs
    input_tensors,  \* node -> the node's input tensors, flattened
    outputs,        \* tf.nest.flatten(outputs)
    bm_pc,          \* position of _build_map
    out_idx,        \* index of the next output of the for loop (line 104)
    stack,          \* frames of _build_map_helper: [tensor, pc, i]
    finished_nodes,
    nodes_in_progress,
    nodes_in_decreasing_depth,
    layer_indices,  \* layer -> traversal index, or -1 when not a key
    node_layer,     \* node -> the `layer` alias, or 0 when not set
    bm_result       \* what _build_map returned

typeVars   == <<types, made, instances, lastCall>>
loadVars   == <<tf_version, nengo_version, importable, load_pc, bindings,
                logger_filters, patched>>
filterVars == <<log_filter, record, filter_out>>
bmVars     == <<inbound_layers, input_tensors, outputs, bm_pc, out_idx, stack, finished_nodes,
                nodes_in_progress, nodes_in_decreasing_depth, layer_indices,
                node_layer, bm_result>>
vars       == <<typeVars, loadVars, filterVars, bmVars>>

----------------------------------------------------------------------------
(* Bounds of the model *)

MaxUserTypes == 2   \* calls of make_dummy_type made by code outside the module
MaxArgs      == 1   \* most positional arguments passed when calling a type
NumNodes     == 3   \* nodes of the layer graph
MaxEdges     == 3   \* input edges of the layer graph
MaxOutputs   == 2   \* tensors in `outputs`
NumLayers    == 2   \* layers the nodes belong to

----------------------------------------------------------------------------
(* Python type objects: class NoType, make_dummy_type, is_dummy_type *)

ObjectT == 1        \* builtins.object
NoTypeT == 2        \* class NoType

\* What running a class's own __init__ does.  "object" is object.__init__,
\* "raise" is NoType.__init__, "ok" an __init__ that accepts its arguments,
\* "none" a class body that defines no __init__.
ObjectType == [name |-> "object", bases |-> <<>>, init |-> "object"]

NoType == [name |-> "NoType", bases |-> <<ObjectT>>, init |-> "raise"]

\* A class of a library (nengo, keras_spiking) that can be constructed.
LibraryType(name) == [name |-> name, bases |-> <<ObjectT>>, init |-> "ok"]

InitialTypes == <<ObjectType, NoType, LibraryType("nengo.Ensemble")>>

\* type(name, (NoType,), {}): a new class, one base, an empty class body.
make_dummy_type(name) == [name |-> name, bases |-> <<NoTypeT>>, init |-> "none"]

\* The method resolution order of a class with single inheritance.
RECURSIVE Mro(_, _)
Mro(tbl, t) ==
    IF tbl[t].bases = <<>> THEN <<t>> ELSE <<t>> \o Mro(tbl, tbl[t].bases[1])

\* issubclass(t, NoType)
is_dummy_type(tbl, t) == \E i \in 1..Len(Mro(tbl, t)) : Mro(tbl, t)[i] = NoTypeT

\* The first __init__ found along the MRO.
RECURSIVE FindInit(_, _)
FindInit(tbl, mro) ==
    IF tbl[Head(mro)].init # "none" THEN tbl[Head(mro)].init
    ELSE FindInit(tbl, Tail(mro))

NoType_init_pass(nargs) == "ok"

\* NoType.__init__(self, *args, **kwargs): raise RuntimeError
NoType_init(nargs) == "RuntimeError"

\* type.__call__(t, *args): object.__new__ allocates (it rejects arguments only
\* when the class overrides neither __new__ nor __init__), then __init__ runs;
\* the new object is returned only if __init__ returns.
CallType(tbl, t, nargs) ==
    LET init == FindInit(tbl, Mro(tbl, t)) IN
    CASE init = "object" -> IF nargs > 0 THEN "TypeError" ELSE "ok"
      [] init = "raise"  -> NoType_init(nargs)
      [] OTHER           -> "ok"

DummyNames == {"Tanh", "X"}

NoCall == [tid |-> 0, nargs |-> 0, outcome |-> "none"]

TypesInit ==
    /\ types = InitialTypes
    /\ made = {}
    /\ instances = {}
    /\ lastCall = NoCall

\* Code outside the module calls make_dummy_type(name).
MakeDummyType(name) ==
    /\ Cardinality(made) < MaxUserTypes
    /\ types' = Append(types, make_dummy_type(name))
    /\ made' = made \cup {Len(types) + 1}
    /\ UNCHANGED <<instances, lastCall>>
    /\ UNCHANGED <<loadVars, filterVars, bmVars>>

\* Code outside the module calls the type t with nargs arguments.
Instantiate(t, nargs) ==
    LET outcome == CallType(types, t, nargs) IN
    /\ lastCall' = [tid |-> t, nargs |-> nargs, outcome |-> outcome]
    /\ instances' = IF outcome = "ok" THEN instances \cup {t} ELSE instances
    /\ UNCHANGED <<types, made>>
    /\ UNCHANGED <<loadVars, filterVars, bmVars>>

----------------------------------------------------------------------------
(* packaging.version: parse and the ordering of Version objects *)

\* A version string is written as its segments: Num(2) for a release number,
\* Seg("rc", 0) for a pre-release, post-release or development segment.
Num(n) == [k |-> "n", v |-> n]

Seg(k, n) == [k |-> k, v |-> n]

PreLetters == {"a", "b", "rc"}

PreRank(k) == CASE k = "a" -> 0 [] k = "b" -> 1 [] OTHER -> 2

\* version.parse(s): the release numbers and the optional pre/post/dev segments.
ParseVersion(s) ==
    LET rel  == SelectSeq(s, LAMBDA g : g.k = "n")
        pre  == SelectSeq(s, LAMBDA g : g.k \in PreLetters)
        post == SelectSeq(s, LAMBDA g : g.k = "post")
        dev  == SelectSeq(s, LAMBDA g : g.k = "dev")
    IN  [release |-> [i \in 1..Len(rel) |-> rel[i].v],
         pre |-> pre, post |-> post, dev |-> dev]

RECURSIVE StripTrailingZeros(_)
StripTrailingZeros(r) ==
    IF r # <<>> /\ r[Len(r)] = 0 THEN StripTrailingZeros(SubSeq(r, 1, Len(r) - 1))
    ELSE r

\* packaging.version._cmpkey without epoch and local part.  A missing
\* pre-release sorts after every pre-release, except that a development
\* release with neither pre nor post segment sorts before all of them; a
\* missing post segment sorts first and a missing dev segment sorts last.
CmpKey(v) ==
    LET pre == IF v.pre = <<>> /\ v.post = <<>> /\ v.dev # <<>> THEN <<-1, 0>>
               ELSE IF v.pre = <<>> THEN <<3, 0>>
               ELSE <<PreRank(v.pre[1].k), v.pre[1].v>>
        post == IF v.post = <<>> THEN <<-1>> ELSE <<v.post[1].v>>
        dev  == IF v.dev = <<>> THEN <<1, 0>> ELSE <<0, v.dev[1].v>>
    IN  [release |-> StripTrailingZeros(v.release), rest |-> pre \o post \o dev]

\* Python's ordering of tuples of integers.
RECURSIVE TupleLess(_, _)
TupleLess(a, b) ==
    IF a = <<>> THEN b # <<>>
    ELSE IF b = <<>> THEN FALSE
    ELSE IF Head(a) # Head(b) THEN Head(a) < Head(b)
    ELSE TupleLess(Tail(a), Tail(b))

VersionLessOrEqual(a, b) ==
    LET x == CmpKey(a)
        y == CmpKey(b)
    IN  \/ TupleLess(x.release, y.release)
        \/ x.release = y.release /\ ~TupleLess(y.rest, x.rest)

\* Version.__lt__
VersionLess(a, b) ==
    LET x == CmpKey(a)
        y == CmpKey(b)
    IN  \/ TupleLess(x.release, y.release)
        \/ x.release = y.release /\ TupleLess(x.rest, y.rest)

\* "2.3.0rc0"
TFThreshold == <<Num(2), Num(3), Num(0), Seg("rc", 0)>>

\* "3.1.0.dev0"
NengoThreshold == <<Num(3), Num(1), Num(0), Seg("dev", 0)>>

\* version.parse(tf.__version__) < version.parse("2.3.0rc0")
TFLegacy(ver) == VersionLess(ParseVersion(ver), ParseVersion(TFThreshold))

\* version.parse(nengo.__version__) < version.parse("3.1.0.dev0")
NengoLegacy(ver) == VersionLess(ParseVersion(ver), ParseVersion(NengoThreshold))

----------------------------------------------------------------------------
(* Module load: the module-level statements of compat.py, in order *)

CapabilityNames ==
    {"ConvolutionTranspose", "ConvTransposeInc", "PoissonSpiking",
     "RegularSpiking", "StochasticSpiking", "Tanh", "NoTransform",
     "default_transform", "conn_has_weights", "neuron_state", "neuron_step",
     "to_neurons", "_build_map", "SpikingActivation", "Lowpass", "Alpha"}

\* The value a module global is bound to.  kind is "unbound" (no such global),
\* "none" (None), "int", "function" or "type"; tid is the type's id.
Unbound == [kind |-> "unbound", ref |-> "", tid |-> 0]

NoneValue == [kind |-> "none", ref |-> "None", tid |-> 0]

IntValue(ref) == [kind |-> "int", ref |-> ref, tid |-> 0]

FunctionValue(ref) == [kind |-> "function", ref |-> ref, tid |-> 0]

TypeValue(ref, tid) == [kind |-> "type", ref |-> ref, tid |-> tid]

\* The part of the interpreter state that the module's statements change.
\* name = value
Bind(st, name, value) == [st EXCEPT !.bindings[name] = value]

\* name = make_dummy_type(typename)
BindDummy(st, name, typename) ==
    LET tid == Len(st.types) + 1 IN
    [st EXCEPT !.types = Append(@, make_dummy_type(typename)),
               !.made = @ \cup {tid},
               !.bindings[name] = TypeValue(typename, tid)]

\* from <module> import name, for a class of the library
BindImportedType(st, name, ref) ==
    LET tid == Len(st.types) + 1 IN
    [st EXCEPT !.types = Append(@, LibraryType(ref)),
               !.bindings[name] = TypeValue(ref, tid)]

\* The optional imports, by the name they would bind.
ConvImports == {"ConvolutionTranspose", "ConvTransposeInc"}

KerasSpikingImports == {"SpikingActivation", "Lowpass", "Alpha"}

OptionalImports == ConvImports \cup KerasSpikingImports \cup {"keras_spiking"}

\* Lines 93-189: _build_map is the vendored function below 2.3.0rc0 and the
\* function of tensorflow otherwise; below 2.3.0rc0
\* Network._conform_to_reference_input is replaced as well.
TFSection(st, ver) ==
    IF TFLegacy(ver)
    THEN [Bind(st, "_build_map", FunctionValue("nengo_dl.compat._build_map"))
            EXCEPT !.patched = @ \cup {"Network._conform_to_reference_input"}]
    ELSE Bind(st, "_build_map",
              FunctionValue("tensorflow.python.keras.engine.functional._build_map"))

\* Lines 201-231
NengoLegacyBranch(st) ==
    LET s1 == BindDummy(st, "PoissonSpiking", "PoissonSpiking")
        s2 == BindDummy(s1, "RegularSpiking", "RegularSpiking")
        s3 == BindDummy(s2, "StochasticSpiking", "StochasticSpiking")
        s4 == BindDummy(s3, "Tanh", "Tanh")
        s5 == BindDummy(s4, "NoTransform", "NoTransform")
        s6 == Bind(s5, "default_transform", IntValue("1"))
        s7 == Bind(s6, "conn_has_weights", FunctionValue("legacy.conn_has_weights"))
        s8 == Bind(s7, "neuron_state", FunctionValue("legacy.neuron_state"))
        s9 == Bind(s8, "neuron_step", FunctionValue("legacy.neuron_step"))
    IN  Bind(s9, "to_neurons", FunctionValue("legacy.to_neurons"))

\* An ImportError leaves the statement that raised it.
Raise(st) == [st EXCEPT !.raised = "ImportError"]

\* except ImportError: the handler is entered with the error cleared.
Caught(st) == [st EXCEPT !.raised = ""]

ConvFallbackPass(st) == st

\* Lines 242-243: the body of the except clause
ConvFallback(st) ==
    BindDummy(BindDummy(st, "ConvolutionTranspose", "ConvolutionTranspose"),
              "ConvTransposeInc", "ConvTransposeInc")

\* Lines 239-240: the two imports run in order; the first that fails raises
\* ImportError and leaves the names imported before it bound.
ConvImport(st, imp) ==
    IF "ConvolutionTranspose" \notin imp THEN Raise(st)
    ELSE LET s1 == BindImportedType(st, "ConvolutionTranspose",
                                    "nengo.transforms.ConvolutionTranspose")
         IN  IF "ConvTransposeInc" \notin imp THEN Raise(s1)
             ELSE BindImportedType(s1, "ConvTransposeInc",
                                   "nengo.builder.transforms.ConvTransposeInc")

\* Lines 238-243: try / except ImportError
ConvTry(st, imp) ==
    LET r == ConvImport(st, imp)
    IN  IF r.raised = "ImportError" THEN ConvFallback(Caught(r)) ELSE r

\* Line 245: default_transform = None
NengoModernDefaultTransform(st) == Bind(st, "default_transform", NoneValue)

\* Lines 235-261
NengoModernBranch(st, imp) ==
    LET s1 == BindImportedType(st, "PoissonSpiking", "nengo.neurons.PoissonSpiking")
        s2 == BindImportedType(s1, "RegularSpiking", "nengo.neurons.RegularSpiking")
        s3 == BindImportedType(s2, "StochasticSpiking", "nengo.neurons.StochasticSpiking")
        s4 == BindImportedType(s3, "Tanh", "nengo.neurons.Tanh")
        s5 == BindImportedType(s4, "NoTransform", "nengo.transforms.NoTransform")
        s6 == NengoModernDefaultTransform(ConvTry(s5, imp))
        s7 == Bind(s6, "conn_has_weights", FunctionValue("modern.conn_has_weights"))
        s8 == Bind(s7, "neuron_state", FunctionValue("modern.neuron_state"))
        s9 == Bind(s8, "neuron_step", FunctionValue("modern.neuron_step"))
    IN  Bind(s9, "to_neurons", FunctionValue("modern.to_neurons"))

\* Lines 195-261
NengoSection(st, ver, imp) ==
    LET s0 == [st EXCEPT !.patched = @ \cup {"linalg_onenormest.aslinearoperator"}]
        s1 == BindDummy(s0, "ConvolutionTranspose", "ConvolutionTranspose")
        s2 == BindDummy(s1, "ConvTransposeInc", "ConvTransposeInc")
    IN  IF NengoLegacy(ver) THEN NengoLegacyBranch(s2)
        ELSE NengoModernBranch(s2, imp)

\* `from keras_spiking import SpikingActivation, Lowpass, Alpha` raises
\* ImportError when the package is missing, and otherwise binds the names one
\* after the other up to the first that the package does not provide.
RECURSIVE ImportNames(_, _, _)
ImportNames(st, imp, names) ==
    IF names = <<>> THEN st
    ELSE IF Head(names) \notin imp THEN Raise(st)
    ELSE ImportNames(
             BindImportedType(st, Head(names), "keras_spiking." \o Head(names)),
             imp, Tail(names))

\* Line 277
KerasSpikingImport(st, imp) ==
    IF "keras_spiking" \notin imp THEN Raise(st)
    ELSE ImportNames(st, imp, <<"SpikingActivation", "Lowpass", "Alpha">>)

KerasSpikingFallbackFirstOnly(st) ==
    BindDummy(st, "SpikingActivation", "keras_spiking_SpikingActivation")

\* Lines 279-281: the body of the except clause
KerasSpikingFallback(st) ==
    LET s1 == BindDummy(st, "SpikingActivation", "keras_spiking_SpikingActivation")
        s2 == BindDummy(s1, "Lowpass", "keras_spiking_Lowpass")
    IN  BindDummy(s2, "Alpha", "keras_spiking_Alpha")

\* Lines 276-281: try / except ImportError
KerasSpikingSection(st, imp) ==
    LET r == KerasSpikingImport(st, imp)
    IN  IF r.raised = "ImportError" THEN KerasSpikingFallback(Caught(r)) ELSE r

\* The installed versions the model draws from.
TFVersions ==
    { <<Num(2), Num(2), Num(0)>>,                                 \* 2.2.0
      <<Num(2), Num(2), Num(3)>>,                                 \* 2.2.3
      <<Num(2), Num(3), Num(0), Seg("dev", 20200515)>>,           \* 2.3.0.dev20200515
      <<Num(2), Num(3), Num(0), Seg("a", 0)>>,                    \* 2.3.0a0
      <<Num(2), Num(3), Num(0), Seg("b", 1)>>,                    \* 2.3.0b1
      <<Num(2), Num(3), Num(0), Seg("rc", 0), Seg("dev", 1)>>,    \* 2.3.0rc0.dev1
      <<Num(2), Num(3), Num(0), Seg("rc", 0)>>,                   \* 2.3.0rc0
      <<Num(2), Num(3), Seg("rc", 0)>>,                           \* 2.3rc0
      <<Num(2), Num(3), Num(0), Seg("rc", 0), Seg("post", 0)>>,   \* 2.3.0rc0.post0
      <<Num(2), Num(3), Num(0), Seg("rc", 1)>>,                   \* 2.3.0rc1
      <<Num(2), Num(3), Num(0)>>,                                 \* 2.3.0
      <<Num(2), Num(3)>>,                                         \* 2.3
      <<Num(2), Num(10), Num(0)>> }                               \* 2.10.0

NengoVersions ==
    { <<Num(2), Num(8), Num(0)>>,                                 \* 2.8.0
      <<Num(3), Num(0), Num(0)>>,                                 \* 3.0.0
      <<Num(3), Num(0), Num(0), Seg("post", 1)>>,                 \* 3.0.0.post1
      <<Num(3), Num(0), Num(1), Seg("dev", 0)>>,                  \* 3.0.1.dev0
      <<Num(3), Num(1), Num(0), Seg("dev", 0)>>,                  \* 3.1.0.dev0
      <<Num(3), Num(1), Seg("dev", 0)>>,                          \* 3.1.dev0
      <<Num(3), Num(1), Num(0), Seg("dev", 1)>>,                  \* 3.1.0.dev1
      <<Num(3), Num(1), Num(0), Seg("a", 0)>>,                    \* 3.1.0a0
      <<Num(3), Num(1), Num(0)>>,                                 \* 3.1.0
      <<Num(3), Num(10), Num(0)>> }                               \* 3.10.0

\* Line 91: TFLogFilter(err_on_deprecation=False), the object given to addFilter
InstalledFilter == [err_on_deprecation |-> FALSE, installed |-> TRUE]

NoBindings == [n \in CapabilityNames |-> Unbound]

LoadInit ==
    /\ tf_version \in TFVersions
    /\ nengo_version \in NengoVersions
    /\ importable \in SUBSET OptionalImports
    /\ load_pc = "tensorflow"
    /\ bindings = NoBindings
    /\ logger_filters = <<>>
    /\ patched = {}

LoadState ==
    [types |-> types, made |-> made, bindings |-> bindings, patched |-> patched,
     raised |-> ""]

\* The section's effects, and the statement that runs next: an error that no
\* handler caught ends the load.
Commit(st, next) ==
    /\ types' = st.types
    /\ made' = st.made
    /\ bindings' = st.bindings
    /\ patched' = st.patched
    /\ load_pc' = IF st.raised = "" THEN next ELSE "failed"

\* Lines 18-189: the class and function definitions, the log filter and the
\* TensorFlow section.
LoadTensorFlow ==
    /\ load_pc = "tensorflow"
    /\ logger_filters' = Append(logger_filters, InstalledFilter)
    /\ Commit(TFSection(LoadState, tf_version), "nengo")
    /\ UNCHANGED <<tf_version, nengo_version, importable, instances, lastCall>>
    /\ UNCHANGED <<filterVars, bmVars>>

\* Lines 192-261
LoadNengo ==
    /\ load_pc = "nengo"
    /\ Commit(NengoSection(LoadState, nengo_version, importable), "keras_spiking")
    /\ UNCHANGED <<tf_version, nengo_version, importable, logger_filters,
                   instances, lastCall>>
    /\ UNCHANGED <<filterVars, bmVars>>

\* Lines 264-281
LoadKerasSpiking ==
    /\ load_pc = "keras_spiking"
    /\ Commit(KerasSpikingSection(LoadState, importable), "loaded")
    /\ UNCHANGED <<tf_version, nengo_version, importable, logger_filters,
                   instances, lastCall>>
    /\ UNCHANGED <<filterVars, bmVars>>

----------------------------------------------------------------------------
(* TFLogFilter *)

\* A message is written as its words, a path as its components.
GetSession == "tf.keras.backend.get_session"

StepsRunPrefix == <<"Output", "steps_run", "missing", "from", "loss", "dictionary">>

\* record.args is a tuple, or the mapping that logging stores when a call
\* passes one non-empty mapping as its only argument.
TupleArgs(items) == [kind |-> "tuple", items |-> items]

StrKey(k) == [t |-> "str", s |-> k, i |-> 0]

IntKey(i) == [t |-> "int", s |-> "", i |-> i]

Item(k, v) == [key |-> k, value |-> v]

DictArgs(items) == [kind |-> "dict", items |-> items]

\* str.lower(), word by word
LowerWord(w) ==
    CASE w = "Deprecated" -> "deprecated"
      [] w = "DEPRECATED" -> "deprecated"
      [] w = "Output"     -> "output"
      [] w = "The"        -> "the"
      [] w = "From"       -> "from"
      [] OTHER            -> w

Lower(msg) == [i \in 1..Len(msg) |-> LowerWord(msg[i])]

\* needle in haystack
Contains(haystack, needle) == \E i \in 1..Len(haystack) : haystack[i] = needle

\* str.startswith
StartsWith(msg, prefix) ==
    /\ Len(msg) >= Len(prefix)
    /\ SubSeq(msg, 1, Len(prefix)) = prefix

\* len(record.args) > 1 and record.args[1] == value.  Indexing a tuple takes
\* its second item; indexing a mapping looks up the key 1 and raises KeyError
\* when the mapping has no such key.
SecondArgIs(args, value) ==
    IF Len(args.items) <= 1 THEN "False"
    ELSE IF args.kind = "tuple"
         THEN (IF args.items[2] = value THEN "True" ELSE "False")
         ELSE IF \E i \in 1..Len(args.items) : args.items[i].key = IntKey(1)
              THEN (IF \E i \in 1..Len(args.items) :
                          /\ args.items[i].key = IntKey(1)
                          /\ args.items[i].value = value
                    THEN "True" ELSE "False")
              ELSE "KeyError"

\* TFLogFilter(err_on_deprecation)
TFLogFilter(flag) == [err_on_deprecation |-> flag, installed |-> FALSE]

EscalatesCaseSensitive(self, rec) ==
    /\ self.err_on_deprecation
    /\ \/ Contains(rec.pathname, "deprecation.py")
       \/ Contains(rec.msg, "deprecated")

\* Lines 82-84: the condition of the escalation
Escalates(self, rec) ==
    /\ self.err_on_deprecation
    /\ \/ Contains(rec.pathname, "deprecation.py")
       \/ Contains(Lower(rec.msg), "deprecated")

\* The key of a named placeholder, "" for any other word.
PlaceholderKey(w) ==
    CASE w = "%(name)s" -> "name"
      [] w = "%(new)s"  -> "new"
      [] OTHER          -> ""

\* record.getMessage(): str(msg) when args is empty, msg % args otherwise.
\* With a tuple every "%s" takes one item and a named placeholder is an
\* error; with a mapping every named placeholder looks up its key and a single
\* "%s" takes the mapping itself.  "ok" stands for the formatted text.
GetMessage(rec) ==
    LET positional == Cardinality({i \in 1..Len(rec.msg) : rec.msg[i] = "%s"})
        named == {PlaceholderKey(rec.msg[i]) : i \in 1..Len(rec.msg)} \ {""}
        keys == {rec.args.items[i].key : i \in 1..Len(rec.args.items)}
    IN  IF rec.args.items = <<>> THEN "ok"
        ELSE IF rec.args.kind = "tuple"
             THEN (IF named = {} /\ positional = Len(rec.args.items)
                   THEN "ok" ELSE "TypeError")
             ELSE IF \E k \in named : StrKey(k) \notin keys THEN "KeyError"
                  ELSE IF positional > 1 THEN "TypeError"
                  ELSE "ok"

\* TFLogFilter.filter(self, record): "True" and "False" are the values
\* returned, "AttributeError", "KeyError" and "TypeError" the exceptions
\* raised.  The message of the AttributeError is built from
\* record.getMessage(), whose own error comes first.
Filter(self, rec) ==
    LET second == SecondArgIs(rec.args, GetSession) IN
    IF second = "KeyError" THEN "KeyError"
    ELSE IF second = "True" THEN "False"
    ELSE IF StartsWith(rec.msg, StepsRunPrefix) THEN "False"
    ELSE IF Escalates(self, rec)
         THEN (IF GetMessage(rec) = "ok" THEN "AttributeError" ELSE GetMessage(rec))
    ELSE "True"

Messages ==
    { <<"From", "%s", "The", "name", "%s", "is", "deprecated", "use", "%s">>,
      StepsRunPrefix,
      StepsRunPrefix \o <<"We", "assume", "this", "was", "done", "on", "purpose">>,
      StepsRunPrefix \o <<"is", "deprecated">>,
      <<"Output", "steps_run", "missing">>,
      <<"output", "steps_run", "missing", "from", "loss", "dictionary">>,
      <<"This", "is", "Deprecated">>,
      <<"DEPRECATED", "%(name)s", "use", "%(new)s">>,
      <<"Layer", "%s", "was", "built">>,
      <<>> }

ArgTuples ==
    { <<>>, <<"file.py:10">>,
      <<"file.py:10", GetSession>>,
      <<"file.py:10", GetSession, "tf.compat.v1.keras.backend.get_session">>,
      <<GetSession, "file.py:10">>,
      <<"file.py:10", "tf.layers.dense", "tf.keras.layers.Dense">> }

ArgDicts ==
    { <<Item(StrKey("name"), "dense")>>,
      <<Item(StrKey("name"), "dense"), Item(StrKey("new"), "Dense")>>,
      <<Item(IntKey(0), "file.py:10"), Item(IntKey(1), GetSession)>>,
      <<Item(IntKey(1), "dense"), Item(StrKey("new"), GetSession)>> }

Pathnames ==
    { <<"tensorflow", "python", "util", "deprecation.py">>,
      <<"tensorflow", "python", "keras", "engine", "training.py">> }

Records ==
    [args : {TupleArgs(a) : a \in ArgTuples} \cup {DictArgs(d) : d \in ArgDicts},
     msg : Messages, pathname : Pathnames]

NoRecord == [args |-> TupleArgs(<<>>), msg |-> <<>>, pathname |-> <<>>]

NoFilterOut == [outcome |-> "none", record |-> NoRecord, self |-> InstalledFilter]

\* The filter object that exists once the module is loaded (line 91).
FilterInit ==
    /\ log_filter = InstalledFilter
    /\ record = NoRecord
    /\ filter_out = NoFilterOut

\* Code outside the module constructs a filter of its own.
ConstructFilter(flag) ==
    /\ log_filter' = TFLogFilter(flag)
    /\ UNCHANGED <<record, filter_out>>
    /\ UNCHANGED <<typeVars, loadVars, bmVars>>

\* log_filter.filter(rec); the method assigns to nothing.
FilterRecord(rec) ==
    /\ record' = rec
    /\ filter_out' = [outcome |-> Filter(log_filter, rec), record |-> rec,
                      self |-> log_filter]
    /\ UNCHANGED log_filter
    /\ UNCHANGED <<typeVars, loadVars, bmVars>>

----------------------------------------------------------------------------
(* _build_map and _build_map_helper (TensorFlow below 2.3.0rc0) *)

Nodes == 1..NumNodes

Layers == 1..NumLayers

\* Every node has one output tensor, named by the node's number.  Its
\* _keras_history is (layer, node_index, _): node n is inbound node number
\* (n - 1) \div NumLayers of layer ((n - 1) % NumLayers) + 1.
KerasHistory(tensor) ==
    [layer |-> ((tensor - 1) % NumLayers) + 1,
     node_index |-> (tensor - 1) \div NumLayers]

\* layer._inbound_nodes
InboundNodes(layer) ==
    LET ns == {n \in Nodes : ((n - 1) % NumLayers) + 1 = layer}
    IN  [i \in 1..Cardinality(ns) |-> (i - 1) * NumLayers + layer]

\* Lines 127-128: the node that produced the tensor
NodeOf(tensor) ==
    InboundNodes(KerasHistory(tensor).layer)[KerasHistory(tensor).node_index + 1]

\* node.outbound_layer
OutboundLayer(node) == ((node - 1) % NumLayers) + 1

\* Ascending sequence of the members of a set of numbers.
RECURSIVE Ascending(_)
Ascending(S) ==
    IF S = {} THEN <<>>
    ELSE LET m == CHOOSE x \in S : \A y \in S : x <= y
         IN  <<m>> \o Ascending(S \ {m})

\* The nodes of a graph given by its input edges <<consumer, producer>>.  A
\* node without inbound layers is the node of an InputLayer, whose
\* input_tensors hold its own output tensor.
GraphInboundLayers(edges) ==
    [n \in Nodes |->
        LET ins == Ascending({e[2] : e \in {d \in edges : d[1] = n}})
        IN  [i \in 1..Len(ins) |-> OutboundLayer(ins[i])]]

GraphInputTensors(edges) ==
    [n \in Nodes |->
        LET ins == Ascending({e[2] : e \in {d \in edges : d[1] = n}})
        IN  IF ins = <<>> THEN <<n>> ELSE ins]

Graphs == {E \in SUBSET (Nodes \X Nodes) : Cardinality(E) <= MaxEdges}

OutputLists == UNION {[1..k -> Nodes] : k \in 0..MaxOutputs}

NoResult == [returned |-> FALSE, nodes |-> <<>>, layer_indices |-> [l \in Layers |-> -1]]

\* Lines 100-103
BuildMapInit ==
    /\ \E E \in Graphs :
          /\ inbound_layers = GraphInboundLayers(E)
          /\ input_tensors = GraphInputTensors(E)
    /\ outputs \in OutputLists
    /\ bm_pc = "loop"
    /\ out_idx = 1
    /\ stack = <<>>
    /\ finished_nodes = {}
    /\ nodes_in_progress = {}
    /\ nodes_in_decreasing_depth = <<>>
    /\ layer_indices = [l \in Layers |-> -1]
    /\ node_layer = [n \in Nodes |-> 0]
    /\ bm_result = NoResult

Frame(tensor) == [tensor |-> tensor, pc |-> "enter", i |-> 1]

Top == stack[Len(stack)]

Pop == SubSeq(stack, 1, Len(stack) - 1)

graphVars == <<inbound_layers, input_tensors, outputs>>

\* Lines 104-111: the for loop calls the helper on the next output.
BuildMapCall ==
    /\ bm_pc = "loop"
    /\ stack = <<>>
    /\ out_idx <= Len(outputs)
    /\ stack' = <<Frame(outputs[out_idx])>>
    /\ out_idx' = out_idx + 1
    /\ UNCHANGED <<graphVars, bm_pc, finished_nodes, nodes_in_progress,
                   nodes_in_decreasing_depth, layer_indices, node_layer, bm_result>>
    /\ UNCHANGED <<typeVars, loadVars, filterVars>>

\* len(layer_indices)
NumKeys(indices) == Cardinality({l \in Layers : indices[l] # -1})

HelperEnterRepeatsFinished ==
    /\ bm_pc = "loop"
    /\ stack # <<>>
    /\ Top.pc = "enter"
    /\ LET node == NodeOf(Top.tensor)
           layer == KerasHistory(Top.tensor).layer
       IN  IF node \in nodes_in_progress
           THEN /\ bm_pc' = "raised"
                /\ stack' = <<>>
                /\ UNCHANGED <<nodes_in_progress, layer_indices>>
           ELSE /\ layer_indices' =
                      IF layer_indices[layer] = -1
                      THEN [layer_indices EXCEPT ![layer] = NumKeys(layer_indices)]
                      ELSE layer_indices
                /\ nodes_in_progress' = nodes_in_progress \cup {node}
                /\ stack' = [stack EXCEPT ![Len(stack)].pc = "inputs"]
                /\ UNCHANGED bm_pc
    /\ UNCHANGED <<graphVars, out_idx, finished_nodes, nodes_in_decreasing_depth,
                   node_layer, bm_result>>
    /\ UNCHANGED <<typeVars, loadVars, filterVars>>

HelperEnterIgnoresCycle ==
    /\ bm_pc = "loop"
    /\ stack # <<>>
    /\ Top.pc = "enter"
    /\ LET node == NodeOf(Top.tensor)
           layer == KerasHistory(Top.tensor).layer
       IN  IF node \in finished_nodes \/ node \in nodes_in_progress
           THEN /\ stack' = Pop
                /\ UNCHANGED <<bm_pc, nodes_in_progress, layer_indices>>
           ELSE /\ layer_indices' =
                      IF layer_indices[layer] = -1
                      THEN [layer_indices EXCEPT ![layer] = NumKeys(layer_indices)]
                      ELSE layer_indices
                /\ nodes_in_progress' = nodes_in_progress \cup {node}
                /\ stack' = [stack EXCEPT ![Len(stack)].pc = "inputs"]
                /\ UNCHANGED bm_pc
    /\ UNCHANGED <<graphVars, out_idx, finished_nodes, nodes_in_decreasing_depth,
                   node_layer, bm_result>>
    /\ UNCHANGED <<typeVars, loadVars, filterVars>>

\* Lines 127-149: a call of _build_map_helper up to nodes_in_progress.add.
\* A finished node returns at once; a node in progress raises ValueError,
\* which no frame catches, so every frame is left and _build_map returns
\* nothing; otherwise the layer gets its index and the node is in progress.
HelperEnter ==
    /\ bm_pc = "loop"
    /\ stack # <<>>
    /\ Top.pc = "enter"
    /\ LET node == NodeOf(Top.tensor)
           layer == KerasHistory(Top.tensor).layer
       IN  IF node \in finished_nodes
           THEN /\ stack' = Pop
                /\ UNCHANGED <<bm_pc, nodes_in_progress, layer_indices>>
           ELSE IF node \in nodes_in_progress
           THEN /\ bm_pc' = "raised"
                /\ stack' = <<>>
                /\ UNCHANGED <<nodes_in_progress, layer_indices>>
           ELSE /\ layer_indices' =
                      IF layer_indices[layer] = -1
                      THEN [layer_indices EXCEPT ![layer] = NumKeys(layer_indices)]
                      ELSE layer_indices
                /\ nodes_in_progress' = nodes_in_progress \cup {node}
                /\ stack' = [stack EXCEPT ![Len(stack)].pc = "inputs"]
                /\ UNCHANGED bm_pc
    /\ UNCHANGED <<graphVars, out_idx, finished_nodes, nodes_in_decreasing_depth,
                   node_layer, bm_result>>
    /\ UNCHANGED <<typeVars, loadVars, filterVars>>

RecurseInputsFirstOnly(node) ==
    IF inbound_layers[node] # <<>> THEN <<input_tensors[node][1]>> ELSE <<>>

\* Lines 151-154: the tensors the for loop recurses into
RecurseInputs(node) ==
    IF inbound_layers[node] # <<>> THEN input_tensors[node] ELSE <<>>

\* Lines 154-161: the next recursive call
HelperRecurse ==
    /\ bm_pc = "loop"
    /\ stack # <<>>
    /\ Top.pc = "inputs"
    /\ Top.i <= Len(RecurseInputs(NodeOf(Top.tensor)))
    /\ stack' = Append([stack EXCEPT ![Len(stack)].i = @ + 1],
                       Frame(RecurseInputs(NodeOf(Top.tensor))[Top.i]))
    /\ UNCHANGED <<graphVars, bm_pc, out_idx, finished_nodes, nodes_in_progress,
                   nodes_in_decreasing_depth, layer_indices, node_layer, bm_result>>
    /\ UNCHANGED <<typeVars, loadVars, filterVars>>

RecordNodeFirst(order, node) == <<node>> \o order

\* Line 165: nodes_in_decreasing_depth.append(node)
RecordNode(order, node) == Append(order, node)

\* Lines 163-165, and the return
HelperFinish ==
    /\ bm_pc = "loop"
    /\ stack # <<>>
    /\ Top.pc = "inputs"
    /\ Top.i > Len(RecurseInputs(NodeOf(Top.tensor)))
    /\ finished_nodes' = finished_nodes \cup {NodeOf(Top.tensor)}
    /\ nodes_in_progress' = nodes_in_progress \ {NodeOf(Top.tensor)}
    /\ nodes_in_decreasing_depth' =
           RecordNode(nodes_in_decreasing_depth, NodeOf(Top.tensor))
    /\ stack' = Pop
    /\ UNCHANGED <<graphVars, bm_pc, out_idx, layer_indices, node_layer, bm_result>>
    /\ UNCHANGED <<typeVars, loadVars, filterVars>>

\* Lines 113-117: the alias of every recorded node, and the return
BuildMapReturn ==
    /\ bm_pc = "loop"
    /\ stack = <<>>
    /\ out_idx > Len(outputs)
    /\ node_layer' =
           [n \in Nodes |->
               IF \E i \in 1..Len(nodes_in_decreasing_depth) :
                      nodes_in_decreasing_depth[i] = n
               THEN OutboundLayer(n) ELSE node_layer[n]]
    /\ bm_result' = [returned |-> TRUE, nodes |-> nodes_in_decreasing_depth,
                     layer_indices |-> layer_indices]
    /\ bm_pc' = "returned"
    /\ UNCHANGED <<graphVars, out_idx, stack, finished_nodes, nodes_in_progress,
                   nodes_in_decreasing_depth, layer_indices>>
    /\ UNCHANGED <<typeVars, loadVars, filterVars>>

----------------------------------------------------------------------------
(* Specifications *)

LoadIdle ==
    /\ tf_version = <<>>
    /\ nengo_version = <<>>
    /\ importable = {}
    /\ load_pc = "idle"
    /\ bindings = NoBindings
    /\ logger_filters = <<>>
    /\ patched = {}

BuildMapIdle ==
    /\ inbound_layers = GraphInboundLayers({})
    /\ input_tensors = GraphInputTensors({})
    /\ outputs = <<>>
    /\ bm_pc = "idle"
    /\ out_idx = 1
    /\ stack = <<>>
    /\ finished_nodes = {}
    /\ nodes_in_progress = {}
    /\ nodes_in_decreasing_depth = <<>>
    /\ layer_indices = [l \in Layers |-> -1]
    /\ node_layer = [n \in Nodes |-> 0]
    /\ bm_result = NoResult

\* Loading the module.
InitLoad == TypesInit /\ LoadInit /\ FilterInit /\ BuildMapIdle

NextLoad ==
    \/ LoadTensorFlow
    \/ LoadNengo
    \/ LoadKerasSpiking

SpecLoad == InitLoad /\ [][NextLoad]_vars

\* Making and calling types.
InitTypes == TypesInit /\ LoadIdle /\ FilterInit /\ BuildMapIdle

NextTypes ==
    \/ \E name \in DummyNames : MakeDummyType(name)
    \/ \E t \in 1..Len(types), nargs \in 0..MaxArgs : Instantiate(t, nargs)

SpecTypes == InitTypes /\ [][NextTypes]_vars

\* Filtering log records.
InitFilter == TypesInit /\ LoadIdle /\ FilterInit /\ BuildMapIdle

NextFilter ==
    \/ \E flag \in BOOLEAN : ConstructFilter(flag)
    \/ \E rec \in Records : FilterRecord(rec)

SpecFilter == InitFilter /\ [][NextFilter]_vars

\* One call of _build_map.
InitBuildMap == TypesInit /\ LoadIdle /\ FilterInit /\ BuildMapInit

NextBuildMap ==
    \/ BuildMapCall
    \/ HelperEnter
    \/ HelperRecurse
    \/ HelperFinish
    \/ BuildMapReturn

SpecBuildMap == InitBuildMap /\ [][NextBuildMap]_vars

----------------------------------------------------------------------------
(* The layer graph, as the claims about _build_map speak of it *)

Members(seq) == {seq[i] : i \in 1..Len(seq)}

\* The nodes that produce the inputs of node n.  The node of an InputLayer has
\* no inbound layers and so no input nodes.
InputNodes(n) == IF inbound_layers[n] = <<>> THEN {} ELSE Members(input_tensors[n])

RECURSIVE Closure(_)
Closure(S) ==
    LET T == S \cup UNION {InputNodes(n) : n \in S}
    IN  IF T = S THEN S ELSE Closure(T)

\* The nodes reachable from the outputs through input edges.
Reachable == Closure(Members(outputs))

\* A cycle (a self-loop included) is reachable from the outputs.
CycleReachable == \E n \in Reachable : n \in Closure(InputNodes(n))

Occurrences(seq, x) == Cardinality({i \in 1..Len(seq) : seq[i] = x})

VisitsFinished ==
    /\ bm_pc = "loop"
    /\ stack # <<>>
    /\ Top.pc = "enter"
    /\ NodeOf(Top.tensor) \in finished_nodes

VisitsInProgress ==
    /\ bm_pc = "loop"
    /\ stack # <<>>
    /\ Top.pc = "enter"
    /\ NodeOf(Top.tensor) \in nodes_in_progress

\* C4: the ordering never holds a node twice, every reachable node is in the
\* returned ordering exactly once, and the visit of a finished node returns at
\* once: no input is recursed into and nothing is recorded or marked again.
C4_SharedNodeOnce ==
    /\ [](\A n \in Nodes : Occurrences(nodes_in_decreasing_depth, n) <= 1)
    /\ [](bm_pc = "returned" =>
            \A n \in Reachable : Occurrences(bm_result.nodes, n) = 1)
    /\ [][VisitsFinished =>
            /\ stack' = Pop
            /\ UNCHANGED <<bm_pc, finished_nodes, nodes_in_progress,
                           nodes_in_decreasing_depth, layer_indices>>]_vars

\* A node with two consumers, reached from two different outputs, was recorded.
C4_Witness ==
    /\ bm_pc = "returned"
    /\ Len(outputs) = 2
    /\ outputs[1] # outputs[2]
    /\ \E n \in Nodes :
          /\ n \in InputNodes(outputs[1])
          /\ n \in InputNodes(outputs[2])
          /\ Occurrences(bm_result.nodes, n) = 1

\* C5: when a cycle is reachable from the outputs _build_map never returns, it
\* ends by raising, and it raises at the visit of a node that is in progress;
\* after the error there is no returned ordering, no returned layer index and
\* no node carries the alias.
C5_CycleRaises ==
    /\ [](CycleReachable => bm_pc # "returned")
    /\ [](CycleReachable /\ ~ENABLED NextBuildMap => bm_pc = "raised")
    /\ [](bm_pc = "raised" =>
            /\ CycleReachable
            /\ bm_result = NoResult
            /\ \A n \in Nodes : node_layer[n] = 0)
    /\ [][VisitsInProgress => bm_pc' = "raised" /\ stack' = <<>>]_vars

\* A back-edge over two nodes raised after another node had been recorded.
C5_Witness ==
    /\ bm_pc = "raised"
    /\ \A n \in Nodes : n \notin InputNodes(n)
    /\ nodes_in_decreasing_depth # <<>>

\* C9: in the returned ordering every input node of a node stands at a
\* strictly earlier position than the node.
C9_InputsBeforeConsumers ==
    bm_pc = "returned" =>
        \A i \in 1..Len(bm_result.nodes) :
            \A m \in InputNodes(bm_result.nodes[i]) :
                \E j \in 1..(i - 1) : bm_result.nodes[j] = m

\* A chain of three nodes was ordered.
C9_Witness ==
    /\ bm_pc = "returned"
    /\ \E a, b, c \in Nodes :
          /\ a # b /\ b # c /\ a # c
          /\ b \in InputNodes(a)
          /\ c \in InputNodes(b)
          /\ a \in Members(bm_result.nodes)

\* C10: at a normal return the ordering holds exactly the nodes reachable from
\* the outputs, no node is in progress and the finished nodes are the recorded
\* ones.
C10_ExactlyReachable ==
    bm_pc = "returned" =>
        /\ Members(bm_result.nodes) = Reachable
        /\ nodes_in_progress = {}
        /\ finished_nodes = Members(bm_result.nodes)

\* A node and its input were ordered while another node, which consumes one of
\* them, was out of reach.
C10_Witness ==
    /\ bm_pc = "returned"
    /\ Cardinality(Reachable) = 2
    /\ \E n \in Reachable : InputNodes(n) # {}
    /\ \E u \in Nodes \ Reachable : InputNodes(u) \cap Reachable # {}

----------------------------------------------------------------------------
(* Claims about the stand-in types *)

\* isinstance(value, d) for a value whose type is t
IsInstanceOf(t, d) == d \in Members(Mro(types, t))

\* C2: every call of a type returned by make_dummy_type raises RuntimeError,
\* whatever the arguments, and no value handed out is an instance of such a
\* type.
C2_DummyNeverInstantiated ==
    /\ lastCall.tid \in made => lastCall.outcome = "RuntimeError"
    /\ \A t \in instances : \A d \in made : ~IsInstanceOf(t, d)

\* A stand-in type was called with an argument while a library class has an
\* instance.
C2_Witness ==
    /\ lastCall.tid \in made
    /\ lastCall.nargs > 0
    /\ lastCall.outcome = "RuntimeError"
    /\ Cardinality(made) = MaxUserTypes
    /\ instances # {}

----------------------------------------------------------------------------
(* Claims about the module load *)

IsMarker(b) == b.kind = "type" /\ is_dummy_type(types, b.tid)

IsRealObject(b) ==
    \/ b.kind \in {"int", "function"}
    \/ b.kind = "type" /\ ~is_dummy_type(types, b.tid)

\* The versions of TFVersions that PEP 440 orders before 2.3.0rc0.
TFBelowThreshold ==
    { <<Num(2), Num(2), Num(0)>>,
      <<Num(2), Num(2), Num(3)>>,
      <<Num(2), Num(3), Num(0), Seg("dev", 20200515)>>,
      <<Num(2), Num(3), Num(0), Seg("a", 0)>>,
      <<Num(2), Num(3), Num(0), Seg("b", 1)>>,
      <<Num(2), Num(3), Num(0), Seg("rc", 0), Seg("dev", 1)>> }

\* The versions of NengoVersions that PEP 440 orders before 3.1.0.dev0.
NengoBelowThreshold ==
    { <<Num(2), Num(8), Num(0)>>,
      <<Num(3), Num(0), Num(0)>>,
      <<Num(3), Num(0), Num(0), Seg("post", 1)>>,
      <<Num(3), Num(0), Num(1), Seg("dev", 0)>> }

TFSectionDone == load_pc \in {"nengo", "keras_spiking", "loaded"}

NengoSectionDone == load_pc \in {"keras_spiking", "loaded"}

NengoShimNames == {"conn_has_weights", "neuron_state", "neuron_step", "to_neurons"}

NengoTypeNames == {"PoissonSpiking", "RegularSpiking", "StochasticSpiking", "Tanh",
                   "NoTransform"}

\* C1 as stated: after the load every capability name is bound to a real
\* object or to a stand-in type, never to None and never unbound.
C1_NeverNone ==
    load_pc = "loaded" =>
        \A n \in CapabilityNames : IsRealObject(bindings[n]) \/ IsMarker(bindings[n])

\* C1 as amended: after the load every capability name is bound; every name
\* but default_transform is bound to a real object or to a stand-in type made
\* by make_dummy_type, different names to different stand-in types;
\* default_transform is 1 below Nengo 3.1.0.dev0 and None from there on.
C1_BoundExceptDefaultTransform ==
    load_pc = "loaded" =>
        /\ \A n \in CapabilityNames : bindings[n].kind # "unbound"
        /\ \A n \in CapabilityNames \ {"default_transform"} :
              /\ IsRealObject(bindings[n]) \/ IsMarker(bindings[n])
              /\ IsMarker(bindings[n]) => bindings[n].tid \in made
        /\ \A n, m \in CapabilityNames :
              n # m /\ IsMarker(bindings[n]) /\ IsMarker(bindings[m])
                  => bindings[n].tid # bindings[m].tid
        /\ bindings["default_transform"] =
              IF nengo_version \in NengoBelowThreshold THEN IntValue("1") ELSE NoneValue

\* The load ended with default_transform None and keras_spiking missing.
C1_Witness ==
    /\ load_pc = "loaded"
    /\ bindings["default_transform"] = NoneValue
    /\ "keras_spiking" \notin importable
    /\ IsMarker(bindings["Lowpass"])
    /\ IsRealObject(bindings["Tanh"])

\* C3: a version that PEP 440 orders before the threshold selects the legacy
\* path of its dependency and every other version the native path.
C3_VersionGate ==
    /\ TFSectionDone =>
          IF tf_version \in TFBelowThreshold
          THEN /\ bindings["_build_map"] = FunctionValue("nengo_dl.compat._build_map")
               /\ "Network._conform_to_reference_input" \in patched
          ELSE /\ bindings["_build_map"] =
                     FunctionValue("tensorflow.python.keras.engine.functional._build_map")
               /\ "Network._conform_to_reference_input" \notin patched
    /\ NengoSectionDone =>
          IF nengo_version \in NengoBelowThreshold
          THEN /\ \A n \in NengoShimNames : bindings[n] = FunctionValue("legacy." \o n)
               /\ \A n \in NengoTypeNames : IsMarker(bindings[n])
               /\ bindings["default_transform"] = IntValue("1")
          ELSE /\ \A n \in NengoShimNames : bindings[n] = FunctionValue("modern." \o n)
               /\ \A n \in NengoTypeNames : IsRealObject(bindings[n])
               /\ bindings["default_transform"] = NoneValue

\* Both dependencies are installed at exactly their threshold version.
C3_Witness ==
    /\ load_pc = "loaded"
    /\ tf_version = TFThreshold
    /\ nengo_version = NengoThreshold
    /\ bindings["conn_has_weights"] = FunctionValue("modern.conn_has_weights")

KerasSpikingImportFails ==
    ~("keras_spiking" \in importable /\ KerasSpikingImports \subseteq importable)

ConvImportFails == ~(ConvImports \subseteq importable)

\* C8: no ImportError of an optional import ends the load, and a failed
\* optional import leaves every name of that import bound to a stand-in type:
\* the three keras_spiking names, and on the branch for Nengo 3.1.0.dev0 and
\* later the two names of the transposed convolution.
C8_OptionalImportsDegrade ==
    /\ load_pc # "failed"
    /\ load_pc = "loaded" /\ KerasSpikingImportFails =>
          \A n \in KerasSpikingImports : IsMarker(bindings[n])
    /\ NengoSectionDone /\ nengo_version \notin NengoBelowThreshold /\ ConvImportFails =>
          \A n \in ConvImports : IsMarker(bindings[n])

\* Both optional imports failed after their first name had been imported.
C8_Witness ==
    /\ load_pc = "loaded"
    /\ nengo_version \notin NengoBelowThreshold
    /\ importable = {"ConvolutionTranspose", "keras_spiking", "SpikingActivation"}
    /\ IsMarker(bindings["ConvolutionTranspose"])
    /\ IsMarker(bindings["SpikingActivation"])

----------------------------------------------------------------------------
(* Claims about the log filter *)

Called == filter_out.outcome # "none"

\* The record is one of the two spurious records.
SecondArgumentIsGetSession(rec) ==
    /\ rec.args.kind = "tuple"
    /\ Len(rec.args.items) >= 2
    /\ rec.args.items[2] = GetSession

StepsRunMessage(rec) == StartsWith(rec.msg, StepsRunPrefix)

MentionsDeprecated(rec) == Contains(Lower(rec.msg), "deprecated")

\* The lookup record.args[1] is made on a mapping.
LooksUpMapping(rec) == rec.args.kind = "dict" /\ Len(rec.args.items) > 1

\* The message has one "%s" for every item of a tuple of arguments and no
\* named placeholder, or the arguments are empty: msg % args has a value.
FormatsWithTuple(rec) ==
    /\ rec.args.kind = "tuple"
    /\ \/ rec.args.items = <<>>
       \/ /\ Occurrences(rec.msg, "%s") = Len(rec.args.items)
          /\ \A i \in 1..Len(rec.msg) : rec.msg[i] \notin {"%(name)s", "%(new)s"}

\* C6 as stated: filter returns False for every record whose second argument is
\* "tf.keras.backend.get_session" or whose message starts with the steps_run
\* text, with either flag, whatever else the record holds, raising nothing.
C6_SpuriousSuppressed ==
    Called /\ (SecondArgumentIsGetSession(filter_out.record)
               \/ StepsRunMessage(filter_out.record))
        => filter_out.outcome = "False"

====
